---- MODULE Spec2Model ----
(***************************************************************************)
(* Run-expectancy pipeline of python_files/: Helpers.py                    *)
(* (add_runner_states, add_game_state, add_runs_remaining,                 *)
(* calculate_zero_run_probabilities), generate_gamestate_summary.py        *)
(* (build_gamestate_summary_all_years) and                                 *)
(* target_and_calculated_pipeline.py (generate_target_for_month).          *)
(*                                                                         *)
(* SpecRunner  : the row loop of add_runner_states, one row at a time.     *)
(*               runner_states is write-only inside the loop, so the scan  *)
(*               keeps the tuple the current iteration appended (emitted). *)
(* SpecFrame   : add_runner_states, add_game_state and add_runs_remaining  *)
(*               applied in turn to one data frame.                        *)
(* SpecEncode  : add_game_state on every tuple of flags, outs, balls and   *)
(*               strikes.                                                  *)
(* SpecCoerce  : add_runner_states and add_runs_remaining on frames whose   *)
(*               RunsScored and OutsOnPlay cells are numbers, missing or   *)
(*               text.                                                     *)
(* SpecTable   : build_gamestate_summary_all_years, one file at a time in  *)
(*               any order, then the final table.                          *)
(* SpecFault   : build_gamestate_summary_all_years on a corpus with files   *)
(*               that fail.                                                *)
(* SpecLabel   : generate_target_for_month for a table of expected runs,   *)
(*               one file at a time.                                       *)
(***************************************************************************)
EXTENDS Integers, Sequences, FiniteSets, Bags, TLC

VARIABLES
    pc,                \* position of the running function
    row,               \* add_runner_states: the row of the current iteration
    r1, r2, r3,        \* add_runner_states: base flags
    outs,              \* add_runner_states: outs within the inning-half
    prev_inning_half,  \* add_runner_states: key of the previous row
    emitted,           \* add_runner_states: the tuple this iteration appended to runner_states
    df,                \* the data frame of the running function, a sequence of rows
    summary,           \* build_gamestate_summary_all_years: the accumulator
    agg,               \* build_gamestate_summary_all_years: count and sum of the last file
    zero_stats,        \* build_gamestate_summary_all_years: zero-run counts of the last file
    combined_df,       \* build_gamestate_summary_all_years: the table returned
    files_done,        \* files the loop over the files has taken
    records,           \* history: the bag of (GameState, RunsRemaining) of the rows aggregated
    gamestate_to_er,   \* generate_target_for_month: GameState -> ExpectedRuns of the table
    all_dfs,           \* generate_target_for_month: the labeled frames
    rows_read,         \* rows of the files read so far
    last_file,         \* generate_target_for_month: the rows of the file read last
    apply_empty        \* what DataFrame.apply(f, axis=1) of the pandas installed
                       \* returns for a frame without rows: "series" or "frame"

runner == <<row, r1, r2, r3, outs, prev_inning_half, emitted>>
builder == <<summary, agg, zero_stats, combined_df, files_done, records>>
labeler == <<gamestate_to_er, all_dfs, rows_read, last_file, apply_empty>>
vars == <<pc, row, r1, r2, r3, outs, prev_inning_half, emitted, df,
          summary, agg, zero_stats, combined_df, files_done, records,
          gamestate_to_er, all_dfs, rows_read, last_file, apply_empty>>

(***************************************************************************)
(* Input domains                                                           *)
(***************************************************************************)
MaxRuns == 3

None == "None"

\* a cell of the columns RunsScored and OutsOnPlay, and of a float column:
\* <<>> is NaN (a missing value), <<v>> is the number v, and a str that is not
\* a number is the tuple of its characters. The str is one that pd.read_csv
\* keeps as a str: the strings it reads as missing ("", "NA", "N/A", "n/a",
\* "NaN", "null", ...) reach the code as NaN.
NaN == <<>>
Num(v) == <<v>>
Text == <<"a", "b", "c">>

\* pd.isna(x)
IsNa(x) == x = NaN

\* int(x) raises ValueError: x is a str that is not a number
IntRaises(x) == Len(x) > 1

\* int(x) if not pd.isna(x) else 0, for x a number or NaN
IntOrZero(x) == IF IsNa(x) THEN 0 ELSE x[1]

\* .fillna(0).astype(int), for one cell; astype raises on a str as int does
FillNaInt(x) == IF IsNa(x) THEN 0 ELSE x[1]

\* the row variable before the first iteration
NoRow == [Inning |-> 0, TopBottom |-> None, PlayResult |-> None, KorBB |-> None,
          PitchCall |-> None, OutsOnPlay |-> Num(0), RunsScored |-> Num(0)]

Innings == {1, 2}
Halves == {"Top", "Bottom"}
PlayResults == {"Single", "Double", "Triple", "HomeRun", "Out"}
WalkMarks == {[KorBB |-> "Undefined", PitchCall |-> "InPlay"],
              [KorBB |-> "Walk", PitchCall |-> "BallCalled"],
              [KorBB |-> "Undefined", PitchCall |-> "HitByPitch"]}
OutsOnPlayValues == {0, 1, 2, 3}
RunsValues == 0..MaxRuns

\* rows of the row loop; their RunsScored and OutsOnPlay cells are numbers
RunnerRows ==
    { [Inning |-> i, TopBottom |-> h, PlayResult |-> p, KorBB |-> w.KorBB,
       PitchCall |-> w.PitchCall, OutsOnPlay |-> Num(o), RunsScored |-> Num(s)] :
         i \in Innings, h \in Halves, p \in PlayResults, w \in WalkMarks,
         o \in OutsOnPlayValues, s \in RunsValues }

(***************************************************************************)
(* Helpers.py, add_runner_states                                           *)
(***************************************************************************)
\* f"{row['Inning']}-{row['Top/Bottom']}"
InningHalf(rw) == ToString(rw.Inning) \o "-" \o rw.TopBottom

\* mutant: the out count is not tested
NeedsResetKeyOnly(inning_half, prev, o) == inning_half # prev

\* the reset test of the loop head
NeedsReset(inning_half, prev, o) == inning_half # prev \/ o >= 3

\* mutant: the runner farthest from home is cleared first
ClearLeadFromFirst(f) ==
    IF f[1] = 1 THEN <<0, f[2], f[3]>>
    ELSE IF f[2] = 1 THEN <<0, 0, f[3]>>
    ELSE IF f[3] = 1 THEN <<0, 0, 0>>
    ELSE f

\* one pass of the body of "while runs_scored > 0"
ClearLead(f) ==
    IF f[3] = 1 THEN <<f[1], f[2], 0>>
    ELSE IF f[2] = 1 THEN <<f[1], 0, 0>>
    ELSE IF f[1] = 1 THEN <<0, 0, 0>>
    ELSE f

\* the while loop: flags <<r1, r2, r3>> after runs_scored passes
RECURSIVE RemoveScorers(_, _)
RemoveScorers(f, runs_scored) ==
    IF runs_scored > 0 THEN RemoveScorers(ClearLead(f), runs_scored - 1) ELSE f

IsWalk(rw) == rw.KorBB = "Walk" \/ rw.PitchCall = "HitByPitch"

\* mutant: every walk advances every runner one base
WalkForceAll(f) == <<1, f[1], f[2]>>

\* the forced advancement of the is_walk branch
WalkForce(f) ==
    IF f[1] = 1 /\ f[2] = 1 /\ f[3] = 1 THEN f
    ELSE IF f[1] = 1 /\ f[2] = 1 THEN <<1, 1, 1>>
    ELSE IF f[1] = 1 THEN <<1, 1, f[3]>>
    ELSE <<1, f[2], f[3]>>

\* mutant: the Double keeps the runner of first on second
PlayTransitionDoubleShort(f, rw) ==
    IF rw.PlayResult = "Single" THEN <<1, f[1], f[2]>>
    ELSE IF rw.PlayResult = "Double" THEN <<0, 1, f[2]>>
    ELSE IF rw.PlayResult = "Triple" THEN <<0, 0, 1>>
    ELSE IF rw.PlayResult = "HomeRun" THEN <<0, 0, 0>>
    ELSE IF IsWalk(rw) THEN WalkForce(f)
    ELSE f

\* mutant: the walk is tested before the PlayResult
PlayTransitionWalkFirst(f, rw) ==
    IF IsWalk(rw) THEN WalkForce(f)
    ELSE IF rw.PlayResult = "Single" THEN <<1, f[1], f[2]>>
    ELSE IF rw.PlayResult = "Double" THEN <<0, 1, f[1]>>
    ELSE IF rw.PlayResult = "Triple" THEN <<0, 0, 1>>
    ELSE IF rw.PlayResult = "HomeRun" THEN <<0, 0, 0>>
    ELSE f

\* the if/elif chain on PlayResult; f = <<r1, r2, r3>>
PlayTransition(f, rw) ==
    IF rw.PlayResult = "Single" THEN <<1, f[1], f[2]>>
    ELSE IF rw.PlayResult = "Double" THEN <<0, 1, f[1]>>
    ELSE IF rw.PlayResult = "Triple" THEN <<0, 0, 1>>
    ELSE IF rw.PlayResult = "HomeRun" THEN <<0, 0, 0>>
    ELSE IF IsWalk(rw) THEN WalkForce(f)
    ELSE f

\* build_gamestate_summary_all_years before the loop over the files
BuilderInit ==
    /\ summary = <<>>
    /\ agg = <<>>
    /\ zero_stats = <<>>
    /\ combined_df = <<>>
    /\ files_done = 0
    /\ records = <<>>

\* generate_target_for_month not running
LabelerIdle ==
    /\ gamestate_to_er = <<>>
    /\ all_dfs = <<>>
    /\ rows_read = 0
    /\ last_file = <<>>
    /\ apply_empty = "series"

\* state before the loop
RunnerInit ==
    /\ row = NoRow
    /\ r1 = 0 /\ r2 = 0 /\ r3 = 0
    /\ outs = 0
    /\ prev_inning_half = None
    /\ emitted = <<>>

\* mutant: the reset clears the bases and keeps the out count
LoopHeadKeepOuts(rw) ==
    /\ pc = "head"
    /\ UNCHANGED <<df, builder, labeler>>
    /\ row' = rw
    /\ LET reset == NeedsReset(InningHalf(rw), prev_inning_half, outs)
           f == IF reset THEN <<0, 0, 0>> ELSE <<r1, r2, r3>>
       IN /\ r1' = f[1] /\ r2' = f[2] /\ r3' = f[3]
          /\ outs' = outs
          /\ emitted' = f
    /\ pc' = "remove"
    /\ UNCHANGED prev_inning_half

\* loop head: fetch the row, reset if needed, append the flags
LoopHead(rw) ==
    /\ pc = "head"
    /\ UNCHANGED <<df, builder, labeler>>
    /\ row' = rw
    /\ LET reset == NeedsReset(InningHalf(rw), prev_inning_half, outs)
           f == IF reset THEN <<0, 0, 0>> ELSE <<r1, r2, r3>>
       IN /\ r1' = f[1] /\ r2' = f[2] /\ r3' = f[3]
          /\ outs' = IF reset THEN 0 ELSE outs
          /\ emitted' = f
    /\ pc' = "remove"
    /\ UNCHANGED prev_inning_half

\* remove the runners who scored
RemoveStep ==
    /\ pc = "remove"
    /\ UNCHANGED <<df, builder, labeler>>
    /\ LET f == RemoveScorers(<<r1, r2, r3>>, IntOrZero(row.RunsScored))
       IN r1' = f[1] /\ r2' = f[2] /\ r3' = f[3]
    /\ pc' = "play"
    /\ UNCHANGED <<row, outs, prev_inning_half, emitted>>

\* move the runners: the if/elif chain on PlayResult and is_walk
PlayStep ==
    /\ pc = "play"
    /\ UNCHANGED <<df, builder, labeler>>
    /\ LET f == PlayTransition(<<r1, r2, r3>>, row)
       IN r1' = f[1] /\ r2' = f[2] /\ r3' = f[3]
    /\ pc' = "outs"
    /\ UNCHANGED <<row, outs, prev_inning_half, emitted>>

\* count the outs, remember the key, go to the next row. row and the tuple
\* appended by this iteration are not read again: the loop head rebinds them.
OutsStep ==
    /\ pc = "outs"
    /\ UNCHANGED <<df, builder, labeler>>
    /\ outs' = outs + IntOrZero(row.OutsOnPlay)
    /\ prev_inning_half' = InningHalf(row)
    /\ row' = NoRow
    /\ emitted' = <<>>
    /\ pc' = "head"
    /\ UNCHANGED <<r1, r2, r3>>

NextRow == \E rw \in RunnerRows : LoopHead(rw)

InitRunner == pc = "head" /\ RunnerInit /\ df = <<>> /\ BuilderInit /\ LabelerIdle
NextRunner == NextRow \/ RemoveStep \/ PlayStep \/ OutsStep
SpecRunner == InitRunner /\ [][NextRunner]_vars

(***************************************************************************)
(* Data frames: add_runner_states, add_game_state, add_runs_remaining      *)
(***************************************************************************)
MaxLen == 3
InningLimit == 9
OutsLimit == 2
BallsLimit == 3
StrikesLimit == 2

\* a row with every column the three functions read
BaseRow == [Inning |-> 1, TopBottom |-> "Top", Outs |-> 0, Balls |-> 0, Strikes |-> 0,
            PlayResult |-> "Out", KorBB |-> "Undefined", PitchCall |-> "InPlay",
            OutsOnPlay |-> Num(0), RunsScored |-> Num(0)]

\* outs scoring 0, 1 or 2 runs and singles scoring none, of each half-inning;
\* a double play of 1-Top and a single of 1-Bottom with an out on the play
FrameRuns == {0, 1, 2}
FrameRows ==
    { [BaseRow EXCEPT !.Inning = i, !.TopBottom = h, !.RunsScored = Num(s)] :
         i \in Innings, h \in Halves, s \in FrameRuns }
    \cup { [BaseRow EXCEPT !.Inning = i, !.TopBottom = h, !.PlayResult = "Single"] :
              i \in Innings, h \in Halves }
    \cup { [BaseRow EXCEPT !.OutsOnPlay = Num(2)],
           [BaseRow EXCEPT !.TopBottom = "Bottom", !.PlayResult = "Single",
                           !.OutsOnPlay = Num(1)] }

RECURSIVE SeqsUpTo(_, _)
SeqsUpTo(S, n) ==
    IF n = 0 THEN {<<>>}
    ELSE LET shorter == SeqsUpTo(S, n - 1)
         IN shorter \cup {Append(q, x) : q \in {t \in shorter : Len(t) = n - 1}, x \in S}

Frames == SeqsUpTo(FrameRows, MaxLen)

\* int() of line 43 or of line 84 raises on a row of d
ScanRaises(d) ==
    \E i \in 1..Len(d) : IntRaises(d[i].RunsScored) \/ IntRaises(d[i].OutsOnPlay)

\* mutant: the reset clears the flags and keeps the out count
OutsAfterResetKept(reset, o) == o

\* outs = 0 of the reset; the count as it is without one
OutsAfterReset(reset, o) == IF reset THEN 0 ELSE o

\* the loop of add_runner_states over the rows i.. of d: the tuples appended
RECURSIVE RunnerScan(_, _, _, _, _)
RunnerScan(d, i, f, o, prev) ==
    IF i > Len(d) THEN <<>>
    ELSE LET rw == d[i]
             reset == NeedsReset(InningHalf(rw), prev, o)
             f0 == IF reset THEN <<0, 0, 0>> ELSE f
             o0 == OutsAfterReset(reset, o)
             f2 == PlayTransition(RemoveScorers(f0, IntOrZero(rw.RunsScored)), rw)
         IN <<f0>> \o RunnerScan(d, i + 1, f2, o0 + IntOrZero(rw.OutsOnPlay),
                                 InningHalf(rw))

\* add_runner_states(df) for a frame with rows; pandas refuses the assignment
\* of the three columns from an empty runner_states (see AddRunnerStatesStep)
add_runner_states(d) ==
    LET runner_states == RunnerScan(d, 1, <<0, 0, 0>>, 0, None)
    IN [i \in 1..Len(d) |->
          d[i] @@ [RunnerOn1B |-> runner_states[i][1],
                   RunnerOn2B |-> runner_states[i][2],
                   RunnerOn3B |-> runner_states[i][3]]]

\* mutant: the key prints the balls in the place of the strikes
GameStateKeyBallsTwice(rw) ==
    ToString(rw.RunnerOn1B) \o ToString(rw.RunnerOn2B) \o ToString(rw.RunnerOn3B)
      \o "-O" \o ToString(rw.Outs) \o "-B" \o ToString(rw.Balls)
      \o "-S" \o ToString(rw.Balls)

\* the f-string of add_game_state
GameStateKey(rw) ==
    ToString(rw.RunnerOn1B) \o ToString(rw.RunnerOn2B) \o ToString(rw.RunnerOn3B)
      \o "-O" \o ToString(rw.Outs) \o "-B" \o ToString(rw.Balls)
      \o "-S" \o ToString(rw.Strikes)

add_game_state(d) == [i \in 1..Len(d) |-> d[i] @@ [GameState |-> GameStateKey(d[i])]]

RECURSIVE SumSeq(_)
SumSeq(q) == IF q = <<>> THEN 0 ELSE Head(q) + SumSeq(Tail(q))

\* mutant: the runs of the current pitch are counted too
FutureRunsFromCurrent(runs) ==
    [i \in 1..Len(runs) |-> SumSeq(SubSeq(runs, i, Len(runs)))]

\* [sum(runs[i+1:]) for i in range(len(runs))]
FutureRuns(runs) ==
    [i \in 1..Len(runs) |-> SumSeq(SubSeq(runs, i + 1, Len(runs)))]

\* astype(int) raises on the RunsScored of a group of d
AstypeRaises(d) == \E i \in 1..Len(d) : IntRaises(d[i].RunsScored)

\* group.index of the group (inning, half) of df.groupby(['Inning', 'Top/Bottom'])
GroupIndex(d, inning, half) ==
    SelectSeq([i \in 1..Len(d) |-> i],
              LAMBDA i : d[i].Inning = inning /\ d[i].TopBottom = half)

\* the RunsRemaining that the loop over the groups assigns to row i
RunsRemainingAt(d, i) ==
    LET index == GroupIndex(d, d[i].Inning, d[i].TopBottom)
        runs == [k \in 1..Len(index) |-> FillNaInt(d[index[k]].RunsScored)]
        k == CHOOSE n \in 1..Len(index) : index[n] = i
    IN FutureRuns(runs)[k]

add_runs_remaining(d) ==
    [i \in 1..Len(d) |-> d[i] @@ [RunsRemaining |-> RunsRemainingAt(d, i)]]

\* index of the first row of the first group, in the order of groupby(..,
\* sort=False), whose RunsScored holds a str; astype raises on that group
FirstRaisingRow(d) ==
    LET raising == {i \in 1..Len(d) :
                      \E j \in 1..Len(d) : /\ d[j].Inning = d[i].Inning
                                            /\ d[j].TopBottom = d[i].TopBottom
                                            /\ IntRaises(d[j].RunsScored)}
    IN CHOOSE i \in raising : \A j \in raising : i <= j

\* the frame as astype leaves it when it raises: line 137 has set the column
\* to 0 and line 150 has run for the groups before the raising one
add_runs_remainingRaised(d) ==
    LET first == FirstRaisingRow(d) IN
    [i \in 1..Len(d) |->
       d[i] @@ [RunsRemaining |->
                  IF GroupIndex(d, d[i].Inning, d[i].TopBottom)[1] < first
                  THEN RunsRemainingAt(d, i) ELSE 0]]

\* df = add_runner_states(df); an empty frame raises (three columns assigned
\* from a frame without columns), and so does a str in RunsScored or OutsOnPlay
AddRunnerStatesStep ==
    /\ pc = "add_runner_states"
    /\ IF df = <<>> \/ ScanRaises(df)
       THEN pc' = "raised" /\ UNCHANGED df
       ELSE pc' = "add_game_state" /\ df' = add_runner_states(df)
    /\ UNCHANGED <<runner, builder, labeler>>

\* df = add_game_state(df)
AddGameStateStep ==
    /\ pc = "add_game_state"
    /\ df' = add_game_state(df)
    /\ pc' = "add_runs_remaining"
    /\ UNCHANGED <<runner, builder, labeler>>

\* df = add_runs_remaining(df); a str in RunsScored raises, after the column
\* was added to the frame of the caller
AddRunsRemainingStep ==
    /\ pc = "add_runs_remaining"
    /\ IF AstypeRaises(df)
       THEN pc' = "raised" /\ df' = add_runs_remainingRaised(df)
       ELSE pc' = "enriched" /\ df' = add_runs_remaining(df)
    /\ UNCHANGED <<runner, builder, labeler>>

InitFrame ==
    pc = "add_runner_states" /\ RunnerInit /\ BuilderInit /\ LabelerIdle /\ df \in Frames
NextFrame == AddRunnerStatesStep \/ AddGameStateStep \/ AddRunsRemainingStep
SpecFrame == InitFrame /\ [][NextFrame]_vars

\* every tuple of flags, outs, balls and strikes the later filter lets through
EncodeRows ==
    { BaseRow @@ [RunnerOn1B |-> a, RunnerOn2B |-> b, RunnerOn3B |-> c] :
         a \in {0, 1}, b \in {0, 1}, c \in {0, 1} }
EncodeFrames ==
    { <<[rw EXCEPT !.Outs = o, !.Balls = b, !.Strikes = t]>> :
         rw \in EncodeRows, o \in 0..OutsLimit, b \in 0..BallsLimit, t \in 0..StrikesLimit }

InitEncode ==
    pc = "add_game_state" /\ RunnerInit /\ BuilderInit /\ LabelerIdle /\ df \in EncodeFrames
NextEncode == AddGameStateStep \/ AddRunsRemainingStep
SpecEncode == InitEncode /\ [][NextEncode]_vars

\* frames of singles whose RunsScored and OutsOnPlay cells are numbers,
\* missing or text, and of a single of the bottom half scoring a run
MaxCoerceLen == 3
CoerceRows ==
    { [BaseRow EXCEPT !.PlayResult = "Single", !.RunsScored = s, !.OutsOnPlay = o] :
         s \in {NaN, Num(0), Num(1), Text}, o \in {NaN, Num(1), Text} }
      \cup {[BaseRow EXCEPT !.TopBottom = "Bottom", !.PlayResult = "Single",
                            !.RunsScored = Num(1), !.OutsOnPlay = Num(1)]}
CoerceFrames == SeqsUpTo(CoerceRows, MaxCoerceLen) \ {<<>>}

\* either function called on a frame with rows
InitCoerce ==
    /\ pc \in {"add_runner_states", "add_runs_remaining"}
    /\ RunnerInit /\ BuilderInit /\ LabelerIdle
    /\ df \in CoerceFrames
NextCoerce == AddRunnerStatesStep \/ AddGameStateStep \/ AddRunsRemainingStep
SpecCoerce == InitCoerce /\ [][NextCoerce]_vars

(***************************************************************************)
(* generate_gamestate_summary.py, build_gamestate_summary_all_years        *)
(***************************************************************************)
MaxFiles == 3
MaxFileRows == 2

\* rows of the files: an out, a single, an out scoring a run, the same in the
\* bottom half, a pitch of the ninth inning and a pitch recorded with three
\* strikes
TableRows ==
    { BaseRow,
      [BaseRow EXCEPT !.PlayResult = "Single"],
      [BaseRow EXCEPT !.RunsScored = Num(1)],
      [BaseRow EXCEPT !.TopBottom = "Bottom", !.RunsScored = Num(1)],
      [BaseRow EXCEPT !.Inning = InningLimit],
      [BaseRow EXCEPT !.Strikes = StrikesLimit + 1] }

TableFiles == SeqsUpTo(TableRows, MaxFileRows)

\* rows of the files of a corpus with faults: an out, an out scoring a run, a
\* pitch whose RunsScored is text and a pitch recorded with -1 outs
MaxFaultFileRows == 2
FaultRows ==
    { BaseRow,
      [BaseRow EXCEPT !.RunsScored = Num(1)],
      [BaseRow EXCEPT !.RunsScored = Text],
      [BaseRow EXCEPT !.Outs = -1] }

FaultFiles == SeqsUpTo(FaultRows, MaxFaultFileRows)

RECURSIVE GCD(_, _)
GCD(a, b) == IF b = 0 THEN a ELSE GCD(b, a % b)

\* the quotient a / b (b > 0), kept exact as a fraction in lowest terms
Quotient(a, b) == LET g == GCD(a, b) IN <<a \div g, b \div g>>

RECURSIVE Pow2(_)
Pow2(n) == IF n = 0 THEN 1 ELSE 2 * Pow2(n - 1)

\* 2^n mod b
RECURSIVE Pow2Mod(_, _)
Pow2Mod(n, b) == IF n = 0 THEN 1 % b ELSE (2 * Pow2Mod(n - 1, b)) % b

\* floor(log2(a / b)) for a > 0, b > 0
RECURSIVE Log2Floor(_, _)
Log2Floor(a, b) ==
    IF a >= 2 * b THEN 1 + Log2Floor(a, 2 * b)
    ELSE IF a < b THEN Log2Floor(2 * a, b) - 1
    ELSE 0

\* the error of the float a / b, a double of 53 bits rounded to nearest, in
\* units of 1 / (b * 2^s) with s = 52 - Log2Floor(a, b): positive when the
\* float is above the quotient, 0 when the quotient is a double
FloatError(a, b) ==
    LET s == 52 - Log2Floor(a, b)
        rem == ((a % b) * Pow2Mod(s, b)) % b
    IN IF 2 * rem > b THEN b - rem ELSE 0 - rem

\* round(x, 4) of numpy, for x the float a / b (a >= 0, 0 < b < 46340), in
\* units of 0.0001: rint(x * 10000.0) / 10000.0, the rule of Series.round
\* and of round() on the numpy.float64 that zero_runs / total is. The
\* product is a double again; away from a tie the errors of the two
\* roundings are too small to change the result. At a tie q + 1/2 the
\* product is q + 1/2 (rint: to even) unless the error of the quotient,
\* times 10000, is above half the distance to the next double, and then rint
\* goes to the side of the error.
Round4(a, b) ==
    LET q == (10000 * a) \div b
        twice == 2 * ((10000 * a) % b)
        even == IF q % 2 = 1 THEN q + 1 ELSE q
    IN IF twice # b THEN (IF twice > b THEN q + 1 ELSE q)
       ELSE LET err == FloatError(a, b)
                \* ulp(q + 1/2) / ulp(a / b)
                ratio == Pow2(Log2Floor(2 * q + 1, 2) - Log2Floor(a, b))
                \* below 1/2 = 2^-1 the doubles lie twice as close
                below == IF q = 0 THEN 4 ELSE 2
            IN IF err > 0 /\ 20000 * err > b * ratio THEN q + 1
               ELSE IF err < 0 /\ below * 10000 * (0 - err) > b * ratio THEN q
               ELSE even

\* df[df["Inning"] < 9]
InningFilter(d) == SelectSeq(d, LAMBDA rw : rw.Inning < InningLimit)

\* df[(df["Outs"] <= 2) & (df["Balls"] <= 3) & (df["Strikes"] <= 2)]
CountFilter(d) ==
    SelectSeq(d, LAMBDA rw : rw.Outs <= OutsLimit /\ rw.Balls <= BallsLimit
                             /\ rw.Strikes <= StrikesLimit)

\* the frame of one file as it reaches the aggregation; the file has rows of
\* innings below the limit, with numbers or NaN in RunsScored and OutsOnPlay
Enriched(file) ==
    CountFilter(add_runs_remaining(add_game_state(add_runner_states(InningFilter(file)))))

StatesOf(d) == {d[i].GameState : i \in 1..Len(d)}
RowsOfState(d, st) == SelectSeq(d, LAMBDA rw : rw.GameState = st)
RemainingOf(d) == [i \in 1..Len(d) |-> d[i].RunsRemaining]

\* df.groupby("GameState")["RunsRemaining"].agg(["count", "sum"])
GroupAgg(d) ==
    [st \in StatesOf(d) |->
       [count |-> Len(RowsOfState(d, st)),
        sum |-> SumSeq(RemainingOf(RowsOfState(d, st)))]]

\* mutant: the zero runs are counted over the frame, not over the group
calculate_zero_run_probabilitiesFrame(d) ==
    [st \in StatesOf(d) |->
       LET group == RowsOfState(d, st)
           total == Len(group)
           zero_runs == Len(SelectSeq(d, LAMBDA rw : rw.RunsRemaining = 0))
       IN [ZeroRunsCount |-> zero_runs,
           TotalCount |-> total,
           ZeroRunProbability |-> IF total > 0 THEN Round4(zero_runs, total) ELSE 0]]

\* Helpers.py, calculate_zero_run_probabilities
calculate_zero_run_probabilities(d) ==
    [st \in StatesOf(d) |->
       LET group == RowsOfState(d, st)
           total == Len(group)
           zero_runs == Len(SelectSeq(group, LAMBDA rw : rw.RunsRemaining = 0))
       IN [ZeroRunsCount |-> zero_runs,
           TotalCount |-> total,
           ZeroRunProbability |-> IF total > 0 THEN Round4(zero_runs, total) ELSE 0]]

\* defaultdict(lambda: {"Count": 0, "TotalRunsRemaining": 0, "ZeroRunsCount": 0})
DefaultEntry == [Count |-> 0, TotalRunsRemaining |-> 0, ZeroRunsCount |-> 0]
Entry(summ, st) == IF st \in DOMAIN summ THEN summ[st] ELSE DefaultEntry

\* mutant: the count of a file replaces the count so far
AddAggLastCount(summ, a) ==
    [st \in DOMAIN summ \cup DOMAIN a |->
       IF st \in DOMAIN a
       THEN [Entry(summ, st) EXCEPT
               !.Count = a[st].count,
               !.TotalRunsRemaining = @ + a[st].sum]
       ELSE summ[st]]

\* for state, row in agg.iterrows(): Count += count, TotalRunsRemaining += sum
AddAgg(summ, a) ==
    [st \in DOMAIN summ \cup DOMAIN a |->
       IF st \in DOMAIN a
       THEN [Entry(summ, st) EXCEPT
               !.Count = @ + a[st].count,
               !.TotalRunsRemaining = @ + a[st].sum]
       ELSE summ[st]]

\* for state, val in zero_stats.items(): ZeroRunsCount += val["ZeroRunsCount"]
AddZero(summ, z) ==
    [st \in DOMAIN summ \cup DOMAIN z |->
       IF st \in DOMAIN z
       THEN [Entry(summ, st) EXCEPT !.ZeroRunsCount = @ + z[st].ZeroRunsCount]
       ELSE summ[st]]

RECURSIVE BagOfFrame(_)
BagOfFrame(d) ==
    IF d = <<>> THEN EmptyBag
    ELSE SetToBag({[GameState |-> Head(d).GameState,
                    RunsRemaining |-> Head(d).RunsRemaining]}) (+) BagOfFrame(Tail(d))

\* Enriched, file by file
EnrichedFile ==
    [file \in TableFiles \cup FaultFiles |->
       IF ScanRaises(InningFilter(file)) THEN <<>> ELSE Enriched(file)]

\* mutant: the body of the loop is not in a try block
ProcessFileNoTry(file) ==
    /\ pc = "files"
    /\ files_done < MaxFiles
    /\ files_done' = files_done + 1
    /\ IF InningFilter(file) = <<>>
       THEN pc' = "files" /\ UNCHANGED <<summary, agg, zero_stats, records>>
       ELSE IF ScanRaises(InningFilter(file))
       THEN pc' = "raised" /\ UNCHANGED <<summary, agg, zero_stats, records>>
       ELSE LET d == EnrichedFile[file] IN
            /\ pc' = "files"
            /\ agg' = GroupAgg(d)
            /\ zero_stats' = calculate_zero_run_probabilities(d)
            /\ summary' = AddZero(AddAgg(summary, GroupAgg(d)),
                                  calculate_zero_run_probabilities(d))
            /\ records' = records (+) BagOfFrame(d)
    /\ UNCHANGED <<df, combined_df, runner, labeler>>

\* the try block for one file that is read and has the required columns; an
\* exception of add_runner_states leaves the block before line 80
ProcessFile(file) ==
    /\ pc = "files"
    /\ files_done < MaxFiles
    /\ files_done' = files_done + 1
    /\ IF InningFilter(file) = <<>>
       THEN pc' = "files" /\ UNCHANGED <<summary, agg, zero_stats, records>>
       ELSE IF ScanRaises(InningFilter(file))
       THEN pc' = "except" /\ UNCHANGED <<summary, agg, zero_stats, records>>
       ELSE LET d == EnrichedFile[file] IN
            /\ pc' = "files"
            /\ agg' = GroupAgg(d)
            /\ zero_stats' = calculate_zero_run_probabilities(d)
            /\ summary' = AddZero(AddAgg(summary, GroupAgg(d)),
                                  calculate_zero_run_probabilities(d))
            /\ records' = records (+) BagOfFrame(d)
    /\ UNCHANGED <<df, combined_df, runner, labeler>>

NextFile == \E file \in TableFiles : ProcessFile(file)

\* pd.read_csv raises on the file taken
ReadError ==
    /\ pc = "files"
    /\ files_done < MaxFiles
    /\ files_done' = files_done + 1
    /\ pc' = "except"
    /\ UNCHANGED <<df, summary, agg, zero_stats, combined_df, records, runner, labeler>>

\* the file taken lacks a required column: continue
MissingColumn ==
    /\ pc = "files"
    /\ files_done < MaxFiles
    /\ files_done' = files_done + 1
    /\ UNCHANGED <<pc, df, summary, agg, zero_stats, combined_df, records, runner, labeler>>

\* except Exception: continue
ExceptContinue ==
    /\ pc = "except"
    /\ pc' = "files"
    /\ UNCHANGED <<df, builder, runner, labeler>>

\* combined_df, after the last file
Finalize ==
    /\ pc = "files"
    /\ combined_df' =
          [st \in DOMAIN summary |->
             LET d == summary[st] IN
             [Count |-> d.Count,
              TotalRunsRemaining |-> d.TotalRunsRemaining,
              ExpectedRuns |-> IF d.Count # 0
                               THEN Quotient(d.TotalRunsRemaining, d.Count)
                               ELSE <<0, 1>>,
              ZeroRunsCount |-> d.ZeroRunsCount,
              ZeroRunProbability |-> IF d.Count # 0
                                     THEN Quotient(d.ZeroRunsCount, d.Count)
                                     ELSE <<0, 1>>]]
    /\ pc' = "returned"
    /\ UNCHANGED <<df, summary, agg, zero_stats, files_done, records, runner, labeler>>

InitTable == pc = "files" /\ RunnerInit /\ BuilderInit /\ LabelerIdle /\ df = <<>>
NextTable == NextFile \/ Finalize
SpecTable == InitTable /\ [][NextTable]_vars

\* the loop over the files of a corpus with faults
NextFaultFile == \E file \in FaultFiles : ProcessFile(file)
NextFault == NextFaultFile \/ ReadError \/ MissingColumn \/ ExceptContinue \/ Finalize
SpecFault == InitTable /\ [][NextFault]_vars

(***************************************************************************)
(* target_and_calculated_pipeline.py, generate_target_for_month            *)
(***************************************************************************)
MaxRowsRead == 3

\* ExpectedRuns and Target are kept in units of 0.0001, the precision of
\* round(.., 4)
Minus(x, y) == IF x = NaN \/ y = NaN THEN NaN ELSE Num(x[1] - y[1])

\* rows of the files: the first pitches of 1-Top with 0 and 1 strikes, of
\* 1-Bottom and of 2-Top, a pitch recorded with three strikes and a pitch of
\* the ninth inning
LabelRows ==
    { BaseRow,
      [BaseRow EXCEPT !.Strikes = 1],
      [BaseRow EXCEPT !.TopBottom = "Bottom"],
      [BaseRow EXCEPT !.Inning = 2, !.Strikes = 1],
      [BaseRow EXCEPT !.Strikes = StrikesLimit + 1],
      [BaseRow EXCEPT !.Inning = InningLimit] }

LabelFiles == SeqsUpTo(LabelRows, MaxRowsRead)

\* the ExpectedRuns column of the summary file, as exact quotients
TableValues == {<<21, 50>>, <<2, 3>>}
LabelStates == {"000-O0-B0-S0", "000-O0-B0-S1"}

\* load_gamestate_to_er: dict(zip(df["GameState"], df["ExpectedRuns"]))
LabelTables ==
    UNION { [present -> TableValues] : present \in SUBSET LabelStates }

\* mutant: a state missing from the table counts as 0 expected runs
MapExpectedRunsZero(table, st) ==
    IF st \in DOMAIN table THEN Num(Round4(table[st][1], table[st][2])) ELSE Num(0)

\* df["GameState"].map(gamestate_to_er).round(4), for one row
MapExpectedRuns(table, st) ==
    IF st \in DOMAIN table THEN Num(Round4(table[st][1], table[st][2])) ELSE NaN

\* mutant: the last row is its own next row
NextTopBottomSelf(d, i) == IF i < Len(d) THEN d[i + 1].TopBottom ELSE d[i].TopBottom

\* df["Top/Bottom"].shift(-1), for row i
NextTopBottom(d, i) == IF i < Len(d) THEN d[i + 1].TopBottom ELSE "NaN"

\* df["ExpectedRuns"].shift(-1), for row i of the column er
NextExpectedRuns(er, i) == IF i < Len(er) THEN er[i + 1] ELSE NaN

\* the lambda of df.apply(.., axis=1), for row i
TargetOf(d, er, i) ==
    IF d[i].TopBottom # NextTopBottom(d, i)
    THEN Minus(Num(0), er[i])
    ELSE Minus(NextExpectedRuns(er, i), er[i])

\* lines 69-78: the columns ExpectedRuns and Target of the frame d
LabelFrame(d, table) ==
    LET er == [i \in 1..Len(d) |-> MapExpectedRuns(table, d[i].GameState)]
    IN [i \in 1..Len(d) |->
          d[i] @@ [ExpectedRuns |-> er[i], Target |-> TargetOf(d, er, i)]]

\* the final schema; Top/Bottom is the field TopBottom of a row
REQUIRED_COLS ==
    {"PitchNo", "Date", "PAofInning", "PitchofPA", "Pitcher", "PitcherId",
     "PitcherThrows", "PitcherTeam", "Batter", "BatterSide", "BatterTeam",
     "Inning", "TopBottom", "Outs", "Balls", "Strikes", "TaggedPitchType",
     "AutoPitchType", "PitchCall", "TaggedHitType", "PlayResult", "OutsOnPlay",
     "RunsScored", "RunnerOn1B", "RunnerOn2B", "RunnerOn3B", "GameState",
     "RunsRemaining", "ExpectedRuns", "Target", "RelSpeed", "SpinRate",
     "Extension", "HorzBreak", "InducedVertBreak", "SpinAxis", "EffectiveVelo",
     "RelHeight", "RelSide", "FastestPitchType", "MaxRelSpeed",
     "Avg_InducedVertBreak_FastestType", "Avg_HorzBreak_FastestType",
     "Avg_RelSpeed_FastestType", "vertbreakdiff", "horzbreakdiff",
     "velocity_differential", "VertBreak", "PlateLocHeight", "PlateLocSide",
     "Level", "League"}

\* lines 80-92: the two shifted columns are dropped (they are no fields of
\* the rows here), the new columns are moved behind RunsScored (the fields of
\* a row have no order) and only the columns of the final schema are kept
KeepRequired(d) ==
    [i \in 1..Len(d) |-> [c \in DOMAIN d[i] \cap REQUIRED_COLS |-> d[i][c]]]

\* Enriched, file by file
EnrichedLabelFile == [file \in LabelFiles |-> Enriched(file)]

\* the builds of pandas: the repository pins no version. On a frame with
\* columns and no rows, DataFrame.apply(f, axis=1) returns an empty Series
\* from pandas 1.3 on (f is tried on a row of NaN and returns NaN), and a
\* copy of the frame before.
ApplyEmptyResults == {"series", "frame"}

\* the body of the loop over the files of a month for one file. An empty file
\* is skipped (continue). A file whose frame is empty after the inning filter
\* raises in add_runner_states, and a file with a str in RunsScored or
\* OutsOnPlay raises there too: the except clause skips it. A file whose
\* frame has rows after the inning filter and none after the count filter
\* reaches line 73 with an empty frame: where apply returns a Series the
\* Target column is assigned and the empty frame is appended to all_dfs;
\* where it returns a frame the assignment raises and the file is skipped.
LabelFile(file) ==
    /\ pc = "label"
    /\ rows_read + Len(file) <= MaxRowsRead
    /\ rows_read' = rows_read + Len(file)
    /\ last_file' = file
    /\ IF \/ file = <<>>
          \/ InningFilter(file) = <<>>
          \/ ScanRaises(InningFilter(file))
          \/ (EnrichedLabelFile[file] = <<>> /\ apply_empty = "frame")
       THEN UNCHANGED all_dfs
       ELSE all_dfs' = Append(all_dfs,
                  KeepRequired(LabelFrame(EnrichedLabelFile[file], gamestate_to_er)))
    /\ UNCHANGED <<pc, df, gamestate_to_er, apply_empty, runner, builder>>

\* the files that fit in the rows left to read
FilesUpTo == [n \in 0..MaxRowsRead |-> {file \in LabelFiles : Len(file) <= n}]
FilesLeft == FilesUpTo[MaxRowsRead - rows_read]

NextLabelFile == pc = "label" /\ \E file \in FilesLeft : LabelFile(file)

RECURSIVE Concat(_)
Concat(frames) == IF frames = <<>> THEN <<>> ELSE Head(frames) \o Concat(Tail(frames))

\* return None if not all_dfs else pd.concat(all_dfs, ignore_index=True)
ReturnLabeled ==
    /\ pc = "label"
    /\ df' = IF all_dfs = <<>> THEN None ELSE Concat(all_dfs)
    /\ pc' = "labeled"
    /\ UNCHANGED <<labeler, runner, builder>>

InitLabel ==
    /\ pc = "label" /\ RunnerInit /\ BuilderInit /\ df = <<>>
    /\ gamestate_to_er \in LabelTables
    /\ all_dfs = <<>>
    /\ rows_read = 0
    /\ last_file = <<>>
    /\ apply_empty \in ApplyEmptyResults
NextLabel == NextLabelFile \/ ReturnLabeled
SpecLabel == InitLabel /\ [][NextLabel]_vars

(***************************************************************************)
(* Properties of add_runner_states                                         *)
(***************************************************************************)
Flags == <<r1, r2, r3>>
HitTypes == {"Single", "Double", "Triple", "HomeRun"}
Occupied(f) == f[1] + f[2] + f[3]

\* C1: the tuple appended for an event is the flags as the previous events left
\* them, the play of the event changing the flags only after the append and
\* never the appended tuple; it is (0,0,0) for every event whose key differs
\* from the key of the previous event (the first event included) and for every
\* event met with an out count of 3 or more.
C1_Step ==
    /\ (pc = "head" /\ pc' = "remove") =>
          /\ (InningHalf(row') # prev_inning_half \/ outs >= 3) => emitted' = <<0, 0, 0>>
          /\ (InningHalf(row') = prev_inning_half /\ outs < 3) => emitted' = Flags
          /\ Flags' = emitted'
    /\ pc \in {"remove", "play"} => emitted' = emitted
C1_PrePitchFlags == [][C1_Step]_vars

\* C1 witness: an event of a new inning-half, after another event, whose play
\* has put a runner on base while the appended tuple is (0,0,0).
C1_Witness ==
    /\ pc = "outs"
    /\ prev_inning_half \notin {None, InningHalf(row)}
    /\ emitted = <<0, 0, 0>>
    /\ Flags # <<0, 0, 0>>

\* C2: from the flags (a,b,c) left by the removal of the scorers, Single gives
\* (1,a,b), Double (0,1,a), Triple (0,0,1), HomeRun (0,0,0); the first event
\* emits (0,0,0), a Single without runs then leaves (1,0,0), which the next
\* event of the same inning-half emits, and a Double without runs leaves (0,1,1).
C2_Step ==
    /\ (pc = "play" /\ pc' = "outs") =>
          /\ row.PlayResult = "Single" => Flags' = <<1, r1, r2>>
          /\ row.PlayResult = "Double" => Flags' = <<0, 1, r1>>
          /\ row.PlayResult = "Triple" => Flags' = <<0, 0, 1>>
          /\ row.PlayResult = "HomeRun" => Flags' = <<0, 0, 0>>
    /\ (pc = "head" /\ prev_inning_half = None /\ pc' = "remove") =>
          emitted' = <<0, 0, 0>>
    /\ (pc = "outs" /\ row.PlayResult = "Single" /\ row.RunsScored = Num(0)
          /\ emitted = <<0, 0, 0>>) => Flags = <<1, 0, 0>>
    /\ (pc = "outs" /\ pc' = "head") => Flags' = Flags
    /\ (pc = "head" /\ pc' = "remove" /\ Flags = <<1, 0, 0>> /\ outs < 3
          /\ InningHalf(row') = prev_inning_half) => emitted' = <<1, 0, 0>>
    /\ (pc = "outs" /\ row.PlayResult = "Double" /\ row.RunsScored = Num(0)
          /\ emitted = <<1, 0, 0>>) => Flags = <<0, 1, 1>>
C2_HitTransitions == [][C2_Step]_vars

\* C2 witness: a Double without runs hit with a runner on first only has left
\* runners on second and third.
C2_Witness ==
    /\ pc = "outs"
    /\ row.PlayResult = "Double" /\ row.RunsScored = Num(0)
    /\ emitted = <<1, 0, 0>>
    /\ Flags = <<0, 1, 1>>

\* C3: a walk or hit-by-pitch without a hit-type PlayResult forces runners
\* only: first empty, the batter takes first; first occupied and second empty,
\* first and second occupied; first and second occupied and third empty, bases
\* loaded; bases loaded, no change. A bases-loaded walk with one run scored
\* ends with the bases loaded.
C3_Step ==
    /\ (pc = "play" /\ pc' = "outs" /\ row.PlayResult \notin HitTypes
          /\ (row.KorBB = "Walk" \/ row.PitchCall = "HitByPitch")) =>
          /\ r1 = 0 => Flags' = <<1, r2, r3>>
          /\ (r1 = 1 /\ r2 = 0) => Flags' = <<1, 1, r3>>
          /\ (r1 = 1 /\ r2 = 1 /\ r3 = 0) => Flags' = <<1, 1, 1>>
          /\ (r1 = 1 /\ r2 = 1 /\ r3 = 1) => Flags' = <<1, 1, 1>>
    /\ (pc = "outs" /\ row.PlayResult \notin HitTypes /\ row.RunsScored = Num(1)
          /\ (row.KorBB = "Walk" \/ row.PitchCall = "HitByPitch")
          /\ emitted = <<1, 1, 1>>) => Flags = <<1, 1, 1>>
C3_WalkForcing == [][C3_Step]_vars

\* C3 witness: a walk with the bases loaded and one run scored has been
\* applied and the bases are loaded.
C3_Witness ==
    /\ pc = "outs"
    /\ row.KorBB = "Walk" /\ row.PlayResult \notin HitTypes
    /\ row.RunsScored = Num(1)
    /\ emitted = <<1, 1, 1>>
    /\ Flags = <<1, 1, 1>>

\* the base b of f is still occupied after the k occupied bases closest to home
\* were cleared
StaysAfter(f, b, k) ==
    IF f[b] = 1 /\ Cardinality({c \in b..3 : f[c] = 1}) > k THEN 1 ELSE 0

\* C4: the removal clears, RunsScored times, the occupied base closest to home
\* (nothing when the bases are empty), so the bases are empty after it when
\* RunsScored is at least the number of occupied bases; a HomeRun with two
\* runners on and RunsScored = 3 has (0,0,0) after the removal and after the
\* HomeRun branch.
C4_Step ==
    /\ (pc = "remove" /\ pc' = "play") =>
          /\ Flags' = [b \in 1..3 |-> StaysAfter(Flags, b, row.RunsScored[1])]
          /\ row.RunsScored[1] >= Occupied(Flags) => Flags' = <<0, 0, 0>>
    /\ (pc \in {"play", "outs"} /\ row.PlayResult = "HomeRun" /\ row.RunsScored = Num(3)
          /\ Occupied(emitted) = 2) => Flags = <<0, 0, 0>>
C4_ScoringRemoval == [][C4_Step]_vars

\* C4 witness: the removal has run for a HomeRun with two runners on and
\* RunsScored = 3, and the bases are empty before the HomeRun branch.
C4_Witness ==
    /\ pc = "play"
    /\ row.PlayResult = "HomeRun" /\ row.RunsScored = Num(3)
    /\ Occupied(emitted) = 2
    /\ Flags = <<0, 0, 0>>

\* C14: as long as the reset test never meets an out count of 3 or more, the
\* out count is set to 0 at the event of each change of half-inning key and
\* by nothing else (an event of the same key leaves the count and the flags as
\* they were, the removal and the play leave the count alone, the play's outs
\* only add to it), and the count is never above 2 when a runner state is
\* appended.
C14_Step ==
    /\ (pc = "head" /\ pc' = "remove") =>
          /\ outs' <= 2
          /\ outs < 3 =>
                /\ InningHalf(row') # prev_inning_half => outs' = 0
                /\ InningHalf(row') = prev_inning_half =>
                      outs' = outs /\ Flags' = Flags
    /\ pc \in {"remove", "play"} => outs' = outs
    /\ pc = "outs" => outs' >= outs
C14_OutsReset == [][C14_Step]_vars

\* C14 witness: a runner state with a runner on base has been appended for an
\* event of the half-inning of the previous event, with 2 outs counted.
C14_Witness ==
    /\ pc = "remove"
    /\ prev_inning_half = InningHalf(row)
    /\ outs = 2
    /\ emitted # <<0, 0, 0>>

\* C15: when KorBB = Walk or PitchCall = HitByPitch comes with PlayResult
\* Single, Double, Triple or HomeRun, the flags move as for the hit and not as
\* for the walk; the forced advancement is applied when the indicator is set
\* and PlayResult is none of the four, and only then: without the indicator
\* and without a hit the flags stay.
C15_Step ==
    (pc = "play" /\ pc' = "outs") =>
       LET walk == row.KorBB = "Walk" \/ row.PitchCall = "HitByPitch"
           hit == row.PlayResult \in HitTypes
           forced == IF r1 = 0 THEN <<1, r2, r3>>
                     ELSE IF r2 = 0 THEN <<1, 1, r3>>
                     ELSE <<1, 1, 1>>
           moved == IF row.PlayResult = "Single" THEN <<1, r1, r2>>
                    ELSE IF row.PlayResult = "Double" THEN <<0, 1, r1>>
                    ELSE IF row.PlayResult = "Triple" THEN <<0, 0, 1>>
                    ELSE <<0, 0, 0>>
       IN /\ hit => Flags' = moved
          /\ (walk /\ ~hit) => Flags' = forced
          /\ (~walk /\ ~hit) => Flags' = Flags
C15_HitBeforeWalk == [][C15_Step]_vars

\* C15 witness: a Single marked as a walk, without runs, with a runner on
\* second only, has moved the runner to third and put the batter on first;
\* the forced advancement would have left the runner on second.
C15_Witness ==
    /\ pc = "outs"
    /\ row.KorBB = "Walk" /\ row.PlayResult = "Single"
    /\ row.RunsScored = Num(0)
    /\ emitted = <<0, 1, 0>>
    /\ Flags = <<1, 0, 1>>

\* 1 when the batter reaches base or scores: a hit, a walk or a hit-by-pitch
Batter(rw) ==
    IF rw.PlayResult \in HitTypes \/ rw.KorBB = "Walk" \/ rw.PitchCall = "HitByPitch"
    THEN 1 ELSE 0

\* C19: for every event with OutsOnPlay = 0 and RunsScored at most the
\* occupied bases before the event plus the batter, the occupied bases after
\* the event plus RunsScored are the occupied bases before the event plus the
\* batter.
C19_RunnersConserved ==
    (pc = "outs" /\ row.OutsOnPlay = Num(0)
       /\ row.RunsScored[1] <= Occupied(emitted) + Batter(row)) =>
       Occupied(Flags) + row.RunsScored[1] = Occupied(emitted) + Batter(row)

(***************************************************************************)
(* Properties of add_runs_remaining and add_game_state                     *)
(***************************************************************************)
HalfKey(rw) == <<rw.Inning, rw.TopBottom>>
SameHalf(d, i, j) == d[i].Inning = d[j].Inning /\ d[i].TopBottom = d[j].TopBottom

\* the later rows of the half-inning of row i
LaterOfHalf(d, i) == {j \in (i + 1)..Len(d) : SameHalf(d, i, j)}

RECURSIVE RunsOver(_, _)
RunsOver(d, J) ==
    IF J = {} THEN 0
    ELSE LET j == CHOOSE x \in J : TRUE IN d[j].RunsScored[1] + RunsOver(d, J \ {j})

\* C5: RunsRemaining of a pitch is the sum of RunsScored over the strictly
\* later pitches of the same (Inning, Top/Bottom); from a pitch to the next
\* pitch of its half-inning it drops by the RunsScored of that next pitch, and
\* it is 0 for the last pitch of a half-inning.
C5_FutureRuns ==
    pc = "enriched" =>
       \A i \in 1..Len(df) :
          /\ df[i].RunsRemaining = RunsOver(df, LaterOfHalf(df, i))
          /\ LaterOfHalf(df, i) = {} => df[i].RunsRemaining = 0
          /\ \A j \in LaterOfHalf(df, i) :
                (\A m \in LaterOfHalf(df, i) : j <= m) =>
                   df[i].RunsRemaining - df[j].RunsRemaining = df[j].RunsScored[1]

\* C5 witness: three pitches of one half-inning scoring 1, 2 and 1 runs have
\* 3, 1 and 0 runs remaining.
C5_Witness ==
    /\ pc = "enriched"
    /\ Len(df) = 3
    /\ SameHalf(df, 1, 2) /\ SameHalf(df, 2, 3)
    /\ <<df[1].RunsScored, df[2].RunsScored, df[3].RunsScored>> = <<Num(1), Num(2), Num(1)>>
    /\ <<df[1].RunsRemaining, df[2].RunsRemaining, df[3].RunsRemaining>> = <<3, 1, 0>>

\* the tuples that add_runner_states appends when run on the frame d alone
AppendedAlone(d) == RunnerScan(d, 1, <<0, 0, 0>>, 0, None)

\* the out count that add_runner_states holds when it reaches row i of d
RECURSIVE OutsBefore(_, _)
OutsBefore(d, i) ==
    IF i = 1 THEN 0
    ELSE LET before == OutsBefore(d, i - 1)
             prev == IF i = 2 THEN None ELSE InningHalf(d[i - 2])
             reset == NeedsReset(InningHalf(d[i - 1]), prev, before)
         IN OutsAfterReset(reset, before) + IntOrZero(d[i - 1].OutsOnPlay)

\* C16: wherever the (Inning, Top/Bottom) key of an event differs from the key
\* of the event before it, the runner states of that event and of all the
\* events after it are the states that add_runner_states emits when run on
\* these events alone, whatever the flags and the out count that the events
\* before the change have left: neither is carried over the change.
C16_HalfInningIndependent ==
    pc = "add_game_state" =>
       \A k \in 1..(Len(df) - 1) :
          HalfKey(df[k]) # HalfKey(df[k + 1]) =>
             LET B == SubSeq(df, k + 1, Len(df))
             IN \A i \in 1..Len(B) :
                   <<df[k + i].RunnerOn1B, df[k + i].RunnerOn2B, df[k + i].RunnerOn3B>>
                      = AppendedAlone(B)[i]

\* C16 witness: a double play, which leaves an out count of 2, then a single
\* of another half-inning with an out on the play and a third event of that
\* half-inning: the third event is met with 1 out, not 3, and has the runner
\* of the single on first.
C16_Witness ==
    /\ pc = "add_game_state"
    /\ Len(df) = 3
    /\ df[1].OutsOnPlay = Num(2)
    /\ OutsBefore(df, 2) = 2
    /\ df[2].PlayResult = "Single" /\ df[2].OutsOnPlay = Num(1)
    /\ HalfKey(df[1]) # HalfKey(df[2]) /\ HalfKey(df[2]) = HalfKey(df[3])
    /\ <<df[2].RunnerOn1B, df[2].RunnerOn2B, df[2].RunnerOn3B>> = <<0, 0, 0>>
    /\ <<df[3].RunnerOn1B, df[3].RunnerOn2B, df[3].RunnerOn3B>> = <<1, 0, 0>>

\* the runs scored by the events m+1 .. i of d
RECURSIVE RunsBetween(_, _, _)
RunsBetween(d, m, i) ==
    IF m >= i THEN 0 ELSE d[m + 1].RunsScored[1] + RunsBetween(d, m + 1, i)

\* C20: the last record of a maximal contiguous run of records of one
\* (Inning, Top/Bottom) key (the record after it, if any, makes
\* add_runner_states reset the bases) has RunsRemaining = 0, and the
\* RunsRemaining of a record up to it counts no run scored after it.
C20_PassesAgree ==
    pc = "enriched" =>
       \A i \in 1..Len(df) :
          (i = Len(df) \/ HalfKey(df[i + 1]) # HalfKey(df[i])) =>
             /\ df[i].RunsRemaining = 0
             /\ \A m \in 1..i : df[m].RunsRemaining <= RunsBetween(df, m, i)

Digit(n) == <<"0", "1", "2", "3">>[n + 1]
StateTuple(rw) ==
    <<rw.RunnerOn1B, rw.RunnerOn2B, rw.RunnerOn3B, rw.Outs, rw.Balls, rw.Strikes>>

\* C6: the key is the three flags, then -O{outs}-B{balls}-S{strikes}
\* (101-O2-B1-S2 for runners on first and third, 2 outs, 1 ball, 2 strikes);
\* it is defined for every tuple of flags in {0,1}, outs in 0..2, balls in 0..3,
\* strikes in 0..2, and no other tuple of that domain has the same key.
C6_GameStateKey ==
    /\ pc = "add_game_state" => ENABLED AddGameStateStep
    /\ pc \in {"add_runs_remaining", "enriched"} =>
          LET rw == df[1] IN
          /\ rw.GameState =
                Digit(rw.RunnerOn1B) \o Digit(rw.RunnerOn2B) \o Digit(rw.RunnerOn3B)
                  \o "-O" \o Digit(rw.Outs) \o "-B" \o Digit(rw.Balls)
                  \o "-S" \o Digit(rw.Strikes)
          /\ StateTuple(rw) = <<1, 0, 1, 2, 1, 2>> => rw.GameState = "101-O2-B1-S2"
          /\ \A fr \in EncodeFrames :
                StateTuple(fr[1]) # StateTuple(rw) => GameStateKey(fr[1]) # rw.GameState

\* C6 witness: the key of runners on first and third, 2 outs, 1 ball and 2
\* strikes has been built.
C6_Witness ==
    /\ pc = "add_runs_remaining"
    /\ StateTuple(df[1]) = <<1, 0, 1, 2, 1, 2>>
    /\ df[1].GameState = "101-O2-B1-S2"

\* the cell with a missing or non-numeric value replaced by 0
Coerced(x) == IF Len(x) = 1 THEN x ELSE Num(0)
CoercedFrame(d) ==
    [i \in 1..Len(d) |->
       [d[i] EXCEPT !.RunsScored = Coerced(@), !.OutsOnPlay = Coerced(@)]]

\* C11: a RunsScored or OutsOnPlay value that is missing or not a number
\* counts as 0 and its row is processed all the same: neither
\* add_runner_states nor add_runs_remaining raises on a frame with rows, and
\* the runner flags and the RunsRemaining of every row are those of the frame
\* with each such value replaced by 0.
C11_MalformedNumericField ==
    /\ pc # "raised"
    /\ pc \in {"add_game_state", "add_runs_remaining", "enriched"}
          /\ "RunnerOn1B" \in DOMAIN df[1] =>
          LET zeroed == add_runner_states(CoercedFrame(df))
          IN \A i \in 1..Len(df) :
                <<df[i].RunnerOn1B, df[i].RunnerOn2B, df[i].RunnerOn3B>>
                   = <<zeroed[i].RunnerOn1B, zeroed[i].RunnerOn2B, zeroed[i].RunnerOn3B>>
    /\ pc = "enriched" =>
          \A i \in 1..Len(df) :
             df[i].RunsRemaining = add_runs_remaining(CoercedFrame(df))[i].RunsRemaining

(***************************************************************************)
(* Properties of build_gamestate_summary_all_years                         *)
(***************************************************************************)
\* the sum of w[e] over the copies of the records e of E
RECURSIVE BagSum(_, _)
BagSum(E, w) ==
    IF E = {} THEN 0
    ELSE LET e == CHOOSE x \in E : TRUE
         IN records[e] * w[e] + BagSum(E \ {e}, w)

RecordsOf(st) == {e \in BagToSet(records) : e.GameState = st}
RecordCount(st) == BagSum(RecordsOf(st), [e \in RecordsOf(st) |-> 1])
RecordRuns(st) == BagSum(RecordsOf(st), [e \in RecordsOf(st) |-> e.RunsRemaining])
RecordZeros(st) ==
    BagSum(RecordsOf(st), [e \in RecordsOf(st) |-> IF e.RunsRemaining = 0 THEN 1 ELSE 0])

\* C7: whatever the split of the records into files and the order of the
\* files, the accumulator holds for each state the count, the sum of
\* RunsRemaining and the count of RunsRemaining = 0 over all the records
\* aggregated, and the final table has ExpectedRuns = sum / count and
\* ZeroRunProbability = zero count / count of these pooled totals.
C7_PooledTotals ==
    /\ DOMAIN summary = {e.GameState : e \in BagToSet(records)}
    /\ \A st \in DOMAIN summary :
          /\ summary[st].Count = RecordCount(st)
          /\ summary[st].TotalRunsRemaining = RecordRuns(st)
          /\ summary[st].ZeroRunsCount = RecordZeros(st)
    /\ pc = "returned" =>
          /\ DOMAIN combined_df = DOMAIN summary
          /\ \A st \in DOMAIN combined_df :
                LET t == combined_df[st] IN
                /\ t.Count = RecordCount(st)
                /\ t.TotalRunsRemaining = RecordRuns(st)
                /\ t.ZeroRunsCount = RecordZeros(st)
                /\ t.ExpectedRuns[2] > 0
                /\ t.ExpectedRuns[1] * RecordCount(st) = RecordRuns(st) * t.ExpectedRuns[2]
                /\ t.ZeroRunProbability[2] > 0
                /\ t.ZeroRunProbability[1] * RecordCount(st)
                      = RecordZeros(st) * t.ZeroRunProbability[2]

\* C7 witness: a state met in two files, once in the first (0 runs remaining)
\* and twice in the second (1 run remaining in all), has ExpectedRuns 1/3 in
\* the final table, which is not the average 1/4 of the means 0 and 1/2.
C7_Witness ==
    /\ pc = "returned"
    /\ files_done = 2
    /\ "000-O0-B0-S0" \in DOMAIN combined_df
    /\ "000-O0-B0-S0" \in DOMAIN agg
    /\ LET t == combined_df["000-O0-B0-S0"]
           n2 == agg["000-O0-B0-S0"].count
           t2 == agg["000-O0-B0-S0"].sum
           n1 == t.Count - n2
           t1 == t.TotalRunsRemaining - t2
       IN /\ n1 = 1 /\ t1 = 0 /\ n2 = 2 /\ t2 = 1
          /\ t.ExpectedRuns = <<1, 3>>
          /\ t.ExpectedRuns[1] * (2 * n1 * n2) # t.ExpectedRuns[2] * (t1 * n2 + t2 * n1)

\* C18: every key of the accumulator has Count >= 1 and
\* 0 <= ZeroRunsCount <= Count, after any files; the table returned has a row
\* for each key, whose quotients are those of a count that is not 0, and its
\* ZeroRunProbability is between 0 and 1.
C18_CountsConsistent ==
    /\ \A st \in DOMAIN summary :
          /\ summary[st].Count >= 1
          /\ summary[st].ZeroRunsCount >= 0
          /\ summary[st].ZeroRunsCount <= summary[st].Count
    /\ pc = "returned" =>
          /\ DOMAIN combined_df = DOMAIN summary
          /\ \A st \in DOMAIN combined_df :
                LET t == combined_df[st] IN
                /\ t.Count # 0
                /\ t.ZeroRunProbability[2] > 0
                /\ t.ZeroRunProbability[1] >= 0
                /\ t.ZeroRunProbability[1] <= t.ZeroRunProbability[2]

\* C18 witness: the table is returned with a state counted twice, once with
\* no runs remaining, of ZeroRunProbability 1/2.
C18_Witness ==
    /\ pc = "returned"
    /\ "000-O0-B0-S0" \in DOMAIN combined_df
    /\ combined_df["000-O0-B0-S0"].Count = 2
    /\ combined_df["000-O0-B0-S0"].ZeroRunsCount = 1
    /\ combined_df["000-O0-B0-S0"].ZeroRunProbability = <<1, 2>>

\* the keys of the flags in {0,1}, outs in 0..2, balls in 0..3, strikes in 0..2
KeysInRange == {GameStateKey(fr[1]) : fr \in EncodeFrames}

\* C13: every record that enters the table and every labeled row has
\* Inning < 9, outs in {0,1,2}, balls in {0,1,2,3} and strikes in {0,1,2}: no
\* key of the accumulator or of the table returned, and no labeled row, holds
\* a value outside these ranges, whatever the rows of the files.
C13_CountsInRange ==
    /\ \A e \in BagToSet(records) : e.GameState \in KeysInRange
    /\ DOMAIN summary \subseteq KeysInRange
    /\ DOMAIN combined_df \subseteq KeysInRange
    /\ \A k \in 1..Len(all_dfs) :
          \A i \in 1..Len(all_dfs[k]) :
             LET rw == all_dfs[k][i] IN
             /\ rw.Inning < InningLimit
             /\ rw.Outs \in 0..OutsLimit
             /\ rw.Balls \in 0..BallsLimit
             /\ rw.Strikes \in 0..StrikesLimit
             /\ rw.GameState \in KeysInRange

\* the table of the records aggregated, the rows of the files that did not fail
TableOfRecords ==
    [st \in {e.GameState : e \in BagToSet(records)} |->
       [Count |-> RecordCount(st),
        TotalRunsRemaining |-> RecordRuns(st),
        ExpectedRuns |-> Quotient(RecordRuns(st), RecordCount(st)),
        ZeroRunsCount |-> RecordZeros(st),
        ZeroRunProbability |-> Quotient(RecordZeros(st), RecordCount(st))]]

\* C12: a file that fails takes the loop to the except clause with the
\* accumulator as it was before the file, never out of the function; the
\* except clause returns to the loop, which goes on taking files; and the
\* table returned is the table of the rows of the files that did not fail.
C12_Step ==
    /\ pc' # "raised"
    /\ pc' = "except" => summary' = summary /\ records' = records
    /\ pc = "except" =>
          /\ pc' = "files"
          /\ summary' = summary /\ records' = records /\ files_done' = files_done
    /\ (pc = "files" /\ files_done < MaxFiles) => ENABLED NextFaultFile
    /\ pc' = "returned" => records' = records /\ combined_df' = TableOfRecords
C12_FailedFileSkipped == [][C12_Step]_vars

\* C12 witness: the second file taken has failed, after a file that was
\* aggregated, and the loop is in the except clause with the totals of the
\* first file.
C12_Witness ==
    /\ pc = "except"
    /\ files_done = 2
    /\ DOMAIN summary = {"000-O0-B0-S0"}
    /\ summary["000-O0-B0-S0"].Count = 2
    /\ summary["000-O0-B0-S0"].TotalRunsRemaining = 1

(***************************************************************************)
(* Properties of generate_target_for_month                                 *)
(***************************************************************************)
Retained(file) == CountFilter(InningFilter(file))

\* C8: a retained pitch with a next retained pitch in its file has
\* Target = 0 - ExpectedRuns(current) when the (Inning, Top/Bottom) key of the
\* next pitch differs from its own, and ExpectedRuns(next) -
\* ExpectedRuns(current) otherwise.
C8_TargetByHalfInningKey ==
    \A k \in 1..Len(all_dfs) :
       \A i \in 1..(Len(all_dfs[k]) - 1) :
          LET cur == all_dfs[k][i]
              nxt == all_dfs[k][i + 1]
          IN IF HalfKey(nxt) # HalfKey(cur)
             THEN cur.Target = Minus(Num(0), cur.ExpectedRuns)
             ELSE cur.Target = Minus(nxt.ExpectedRuns, cur.ExpectedRuns)

\* the rows of all_dfs[k] in the frame returned
Offset(k) == Len(Concat(SubSeq(all_dfs, 1, k - 1)))

\* C17: Target is NaN only for a pitch whose own GameState is not in the
\* table: every labeled pitch whose state has an ExpectedRuns entry has a
\* Target that is not NaN, whatever the state of the pitch after it.
C17_TargetNullOnlyOwnState ==
    \A k \in 1..Len(all_dfs) :
       \A i \in 1..Len(all_dfs[k]) :
          all_dfs[k][i].GameState \in DOMAIN gamestate_to_er =>
             all_dfs[k][i].Target # NaN

\* C9: the last retained pitch of a file has Target = 0 - ExpectedRuns(current),
\* in its frame and in the frame returned, whatever the first pitch of the
\* file read after it (a frame without retained pitches has no last pitch).
C9_LastPitchOfFile ==
    \A k \in 1..Len(all_dfs) :
       LET n == Len(all_dfs[k])
           last == all_dfs[k][n]
       IN n > 0 =>
             /\ last.Target = Minus(Num(0), last.ExpectedRuns)
             /\ pc = "labeled" => df[Offset(k) + n] = last

\* C9 witness: two files are labeled, the second starts in the half-inning the
\* first ends in, with a state of 0.6667 expected runs, and the last pitch of
\* the first file, of 0.42 expected runs, has Target -0.42.
C9_Witness ==
    /\ pc = "labeled"
    /\ Len(all_dfs) = 2
    /\ all_dfs[1] # <<>> /\ all_dfs[2] # <<>>
    /\ LET last == all_dfs[1][Len(all_dfs[1])]
           first == all_dfs[2][1]
       IN /\ HalfKey(first) = HalfKey(last)
          /\ first.ExpectedRuns = Num(6667)
          /\ last.ExpectedRuns = Num(4200)
          /\ last.Target = Num(-4200)
          /\ df[Len(all_dfs[1])].Target = Num(-4200)

\* C10: a pitch whose GameState is not in the table has NaN ExpectedRuns and
\* NaN Target; the file read is labeled all the same, with one row for each
\* of its retained pitches, in order.
C10_UnknownGameState ==
    /\ \A k \in 1..Len(all_dfs) :
          \A i \in 1..Len(all_dfs[k]) :
             all_dfs[k][i].GameState \notin DOMAIN gamestate_to_er =>
                all_dfs[k][i].ExpectedRuns = NaN /\ all_dfs[k][i].Target = NaN
    /\ (pc = "label" /\ Retained(last_file) # <<>>) =>
          /\ all_dfs # <<>>
          /\ LET out == all_dfs[Len(all_dfs)]
                 kept == Retained(last_file)
             IN /\ Len(out) = Len(kept)
                /\ \A i \in 1..Len(out) :
                      /\ StateTuple(out[i]) = <<0, 0, 0, kept[i].Outs, kept[i].Balls,
                                                kept[i].Strikes>>
                      /\ HalfKey(out[i]) = HalfKey(kept[i])
                      /\ out[i].GameState \in DOMAIN gamestate_to_er =>
                            out[i].ExpectedRuns # NaN

\* C10 witness: a file of two retained pitches is labeled; the state of the
\* first is not in the table and has NaN ExpectedRuns and Target, the state of
\* the second is and has a Target.
C10_Witness ==
    /\ pc = "label"
    /\ Len(Retained(last_file)) = 2
    /\ Len(all_dfs) = 1
    /\ Len(all_dfs[1]) = 2
    /\ all_dfs[1][1].GameState \notin DOMAIN gamestate_to_er
    /\ all_dfs[1][1].ExpectedRuns = NaN /\ all_dfs[1][1].Target = NaN
    /\ all_dfs[1][2].GameState \in DOMAIN gamestate_to_er
    /\ all_dfs[1][2].Target # NaN

====
